---- MODULE Spec2Model ----
(***************************************************************************)
(* Forward passes of the three networks of template/model.py: LeNet5,      *)
(* CustomMLP and RegularizedLenet5.                                        *)
(*                                                                         *)
(* A network is the sequence of layers its forward method applies.  A      *)
(* forward pass is a walk along that sequence, one layer per step; each    *)
(* step computes the tensor shape the layer produces or stops the pass     *)
(* with the library's dimension error.  Tensor shapes are exact.  Tensor   *)
(* contents are kept symbolically, as the parameters, the input rows and   *)
(* the dropout masks they depend on, and are turned into numbers (fixed    *)
(* point) where the softmax is applied.                                    *)
(***************************************************************************)
EXTENDS Integers, Sequences, FiniteSets

VARIABLES
    model,      \* the class of the instance
    training,   \* its mode: TRUE in training mode, FALSE in evaluation mode
    params,     \* its parameter setting
    img,        \* the shape of the input passed to forward
    status,     \* "ready", "running", "done" (returned) or "error" (raised)
    pc,         \* position of forward in its layer sequence
    shape,      \* the shape of x
    masks,      \* the dropout masks drawn so far in this pass
    val,        \* the entries of x once a softmax has produced them
    trace,      \* the layers applied so far, each with the shape it returned
    out,        \* what forward returned
    prev        \* what the call before this one returned

vars == <<model, training, params, img, status, pc, shape, masks, val,
          trace, out, prev>>

(***************************************************************************)
(* Bounds of the exploration.                                              *)
(***************************************************************************)
MaxBatch  == 2
Scale     == 1000

Models   == {"LeNet5", "CustomMLP", "RegularizedLenet5"}
Sizes    == {4, 10, 14, 28, 30, 48}
Channels == {1, 2}
Widths   == {400, 784}
\* Two parameter settings.
ParamSettings == {1, 2}
\* Two distinct outcomes of drawing a dropout mask.
Masks    == {0, 1}

\* The input tensors offered to forward: 4-D image batches and 2-D
\* already flattened batches.
Inputs ==
    {<<b, c, h, w>> : b \in 0..MaxBatch, c \in Channels, h \in Sizes, w \in Sizes}
    \cup {<<b, f>> : b \in 0..MaxBatch, f \in Widths}

None == <<>>

(***************************************************************************)
(* Layers.  One record shape for every layer kind; fields a kind does not  *)
(* have are 0.  p is the dropout probability in percent.                   *)
(***************************************************************************)
Layer(op, cin, cout, k, s, pad, bias, p, dim) ==
    [op |-> op, cin |-> cin, cout |-> cout, k |-> k, s |-> s, pad |-> pad,
     bias |-> bias, p |-> p, dim |-> dim]

Conv2d(cin, cout, k, s, pad, bias) == Layer("Conv2d", cin, cout, k, s, pad, bias, 0, 0)
Linear(cin, cout)  == Layer("Linear", cin, cout, 0, 0, 0, TRUE, 0, 0)
AvgPool2d(k, s)    == Layer("AvgPool2d", 0, 0, k, s, 0, FALSE, 0, 0)
MaxPool2d(k, s)    == Layer("MaxPool2d", 0, 0, k, s, 0, FALSE, 0, 0)
Tanh               == Layer("Tanh", 0, 0, 0, 0, 0, FALSE, 0, 0)
ReLU               == Layer("ReLU", 0, 0, 0, 0, 0, FALSE, 0, 0)
Dropout(p)         == Layer("Dropout", 0, 0, 0, 0, 0, FALSE, p, 0)
Dropout2d(p)       == Layer("Dropout2d", 0, 0, 0, 0, 0, FALSE, p, 0)
Softmax(dim)       == Layer("Softmax", 0, 0, 0, 0, 0, FALSE, 0, dim)
View(n)            == Layer("View", 0, n, 0, 0, 0, FALSE, 0, 0)

\* A layer together with the attribute (or method) of the model it sits in.
In(blk, layers) == [i \in 1..Len(layers) |-> [blk |-> blk, layer |-> layers[i]]]

(***************************************************************************)
(* LeNet5.                                                                 *)
(***************************************************************************)
\* LeNet5's convolutions with the first one left unpadded.
LeNet5_conv_layers_Unpadded ==
    <<Conv2d(1, 6, 5, 1, 0, TRUE), Tanh, AvgPool2d(2, 2),
      Conv2d(6, 16, 5, 1, 0, TRUE), Tanh, AvgPool2d(2, 2)>>

LeNet5_conv_layers ==
    <<Conv2d(1, 6, 5, 1, 2, TRUE), Tanh, AvgPool2d(2, 2),
      Conv2d(6, 16, 5, 1, 0, TRUE), Tanh, AvgPool2d(2, 2)>>

\* LeNet5's linear layers ending in the last linear layer.
LeNet5_fc_layers_NoSoftmax ==
    <<Linear(16 * 5 * 5, 120), Tanh, Linear(120, 84), Tanh, Linear(84, 10)>>

LeNet5_fc_layers ==
    <<Linear(16 * 5 * 5, 120), Tanh, Linear(120, 84), Tanh,
      Linear(84, 10), Softmax(1)>>

LeNet5_forward ==
    In("conv_layers", LeNet5_conv_layers)
    \o In("forward", <<View(16 * 5 * 5)>>)
    \o In("fc_layers", LeNet5_fc_layers)

(***************************************************************************)
(* CustomMLP.                                                              *)
(***************************************************************************)
CustomMLP_layer1 == <<Linear(28 * 28, 64), Dropout(50), ReLU>>
CustomMLP_layer2 == <<Linear(64, 64), Dropout(50), ReLU>>
CustomMLP_layer3 == <<Linear(64, 64), Dropout(50), ReLU>>
CustomMLP_layer4 == <<Linear(64, 32), Dropout(50), ReLU>>
CustomMLP_layer5 == <<Linear(32, 16), Dropout(50), ReLU>>
CustomMLP_layer6 == <<Linear(16, 16), Dropout(50), ReLU>>
\* layer7 written as a copy of layer6.
CustomMLP_layer7_AsLayer6 == <<Linear(16, 16), Dropout(50), ReLU>>
CustomMLP_layer7 == <<Linear(16, 10), Dropout(50), ReLU>>
CustomMLP_layer8 == <<Linear(10, 10), Softmax(1)>>

\* forward calling layer6 before layer5.
CustomMLP_forward_Swapped ==
    In("forward", <<View(28 * 28)>>)
    \o In("layer1", CustomMLP_layer1) \o In("layer2", CustomMLP_layer2)
    \o In("layer3", CustomMLP_layer3) \o In("layer4", CustomMLP_layer4)
    \o In("layer6", CustomMLP_layer6) \o In("layer5", CustomMLP_layer5)
    \o In("layer7", CustomMLP_layer7) \o In("layer8", CustomMLP_layer8)

CustomMLP_forward ==
    In("forward", <<View(28 * 28)>>)
    \o In("layer1", CustomMLP_layer1) \o In("layer2", CustomMLP_layer2)
    \o In("layer3", CustomMLP_layer3) \o In("layer4", CustomMLP_layer4)
    \o In("layer5", CustomMLP_layer5) \o In("layer6", CustomMLP_layer6)
    \o In("layer7", CustomMLP_layer7) \o In("layer8", CustomMLP_layer8)

(***************************************************************************)
(* RegularizedLenet5.                                                      *)
(***************************************************************************)
\* The convolutions of RegularizedLenet5 with LeNet5's average pooling kept.
RegularizedLenet5_conv_layers_AvgPool ==
    <<Conv2d(1, 6, 5, 1, 2, TRUE), ReLU, Dropout2d(50), AvgPool2d(2, 2),
      Conv2d(6, 16, 5, 1, 0, TRUE), ReLU, Dropout2d(50), AvgPool2d(2, 2)>>

RegularizedLenet5_conv_layers ==
    <<Conv2d(1, 6, 5, 1, 2, TRUE), ReLU, Dropout2d(50), MaxPool2d(2, 2),
      Conv2d(6, 16, 5, 1, 0, TRUE), ReLU, Dropout2d(50), MaxPool2d(2, 2)>>

\* The linear layers of RegularizedLenet5 with the dropouts left out.
RegularizedLenet5_fc_layers_NoDropout ==
    <<Linear(16 * 5 * 5, 120), ReLU, Linear(120, 84), ReLU,
      Linear(84, 10), Softmax(1)>>

RegularizedLenet5_fc_layers ==
    <<Linear(16 * 5 * 5, 120), ReLU, Dropout2d(50),
      Linear(120, 84), ReLU, Dropout2d(50),
      Linear(84, 10), Softmax(1)>>

RegularizedLenet5_forward ==
    In("conv_layers", RegularizedLenet5_conv_layers)
    \o In("forward", <<View(16 * 5 * 5)>>)
    \o In("fc_layers", RegularizedLenet5_fc_layers)

\* The steps of forward of a model.
Forward(m) ==
    CASE m = "LeNet5"            -> LeNet5_forward
      [] m = "CustomMLP"         -> CustomMLP_forward
      [] m = "RegularizedLenet5" -> RegularizedLenet5_forward

(***************************************************************************)
(* Learnable parameters: a convolution has one weight per (input channel,  *)
(* output channel, kernel cell), a linear layer one per (input, output),   *)
(* and each, with bias, one bias per output.  Other layers have none.      *)
(***************************************************************************)
LayerParams(l) ==
    CASE l.op = "Conv2d" -> (l.k * l.k * l.cin + (IF l.bias THEN 1 ELSE 0)) * l.cout
      [] l.op = "Linear" -> (l.cin + (IF l.bias THEN 1 ELSE 0)) * l.cout
      [] OTHER           -> 0

RECURSIVE ParamCount(_)
ParamCount(steps) ==
    IF steps = <<>> THEN 0
    ELSE LayerParams(Head(steps).layer) + ParamCount(Tail(steps))

(***************************************************************************)
(* Shapes.  A shape is the sequence of the dimensions of a tensor.         *)
(***************************************************************************)
RECURSIVE Numel(_)
Numel(sh) == IF sh = <<>> THEN 1 ELSE Head(sh) * Numel(Tail(sh))

\* Output size of a sliding window of size k, stride s, padding pad, along
\* a dimension of size n.
WindowOut(n, k, s, pad) == (n + 2 * pad - k) \div s + 1

\* Conv2d on a batched input: 4 dimensions, as many channels as the layer
\* takes and a padded image no smaller than the kernel.
Conv2dOk(l, sh) ==
    /\ Len(sh) = 4
    /\ sh[2] = l.cin
    /\ sh[3] + 2 * l.pad >= l.k
    /\ sh[4] + 2 * l.pad >= l.k

Conv2dShape(l, sh) ==
    <<sh[1], l.cout, WindowOut(sh[3], l.k, l.s, l.pad), WindowOut(sh[4], l.k, l.s, l.pad)>>

\* Pooling: the output may not be empty.
Pool2dOk(l, sh) ==
    /\ Len(sh) = 4
    /\ sh[3] >= l.k
    /\ sh[4] >= l.k

Pool2dShape(l, sh) ==
    <<sh[1], sh[2], WindowOut(sh[3], l.k, l.s, 0), WindowOut(sh[4], l.k, l.s, 0)>>

\* Linear acts on the last dimension.
LinearOk(l, sh) == Len(sh) >= 1 /\ sh[Len(sh)] = l.cin

LinearShape(l, sh) == [sh EXCEPT ![Len(sh)] = l.cout]

\* view(-1, n): the elements are regrouped in rows of n; the row count is
\* inferred, which needs a non-empty tensor whose size n divides.
ViewOk(l, sh) == Numel(sh) > 0 /\ (Numel(sh) % l.cout) = 0

\* A flatten that keeps the first dimension: view(x.size(0), -1).
ViewShape_KeepBatch(l, sh) == <<sh[1], Numel(sh) \div sh[1]>>

ViewShape(l, sh) == <<Numel(sh) \div l.cout, l.cout>>

\* Softmax(dim): the dimension must exist (dimensions count from 0).
SoftmaxOk(l, sh) == l.dim < Len(sh)

(***************************************************************************)
(* Values.  The entries of a 2-D tensor are a function of the parameters,  *)
(* of the row and of the dropout masks drawn on the way; they are small    *)
(* integers standing for the real numbers of the program.  The softmax is  *)
(* computed on them in fixed point with Scale units to 1.                  *)
(***************************************************************************)
RECURSIVE SumSeq(_)
SumSeq(q) == IF q = <<>> THEN 0 ELSE Head(q) + SumSeq(Tail(q))

MaskCode(ms) == SumSeq([i \in 1..Len(ms) |-> i * ms[i]])

Feature(ps, ms, r, j) == (((ps + r + MaskCode(ms)) * j + r) % 5) - 2

Features(ps, ms, sh) ==
    [r \in 1..sh[1] |-> [j \in 1..sh[2] |-> Feature(ps, ms, r, j)]]

\* exp(x) in units of 1/1000, for the integers the features take.
ExpFix(x) ==
    CASE x = -2 -> 135
      [] x = -1 -> 368
      [] x = 0  -> 1000
      [] x = 1  -> 2718
      [] x = 2  -> 7389

Column(t, j) == [r \in 1..Len(t) |-> t[r][j]]

ExpRow(q) == [j \in 1..Len(q) |-> ExpFix(q[j])]

\* Softmax along dimension dim of a 2-D tensor: dimension 1 normalises each
\* row, dimension 0 each column.
SoftmaxValue(t, dim) ==
    [r \in 1..Len(t) |-> [j \in 1..Len(t[r]) |->
        IF dim = 1
        THEN (ExpFix(t[r][j]) * Scale) \div SumSeq(ExpRow(t[r]))
        ELSE (ExpFix(t[r][j]) * Scale) \div SumSeq(ExpRow(Column(t, j)))]]

\* Dropout that ignores the mode.
DropoutAlways == TRUE

\* Dropout masks are drawn in training mode only; in evaluation mode a
\* dropout layer passes its input through.
DropoutActive == training

(***************************************************************************)
(* The state after construction: a model in one of its two modes, with     *)
(* some parameters, and the input its caller is about to pass.             *)
(***************************************************************************)
Init ==
    /\ model \in Models
    /\ training \in BOOLEAN
    /\ params \in ParamSettings
    /\ img \in Inputs
    /\ status = "ready"
    /\ pc = 1
    /\ shape = None
    /\ masks = <<>>
    /\ val = None
    /\ trace = <<>>
    /\ out = None
    /\ prev = None

Cur == Forward(model)[pc]

At(op) ==
    /\ status = "running"
    /\ pc <= Len(Forward(model))
    /\ Cur.layer.op = op

\* The layer returned a tensor of shape sh.
Advance(sh) ==
    /\ shape' = sh
    /\ pc' = pc + 1
    /\ trace' = Append(trace, [blk |-> Cur.blk, layer |-> Cur.layer, shape |-> sh])
    /\ status' = status

\* The layer raised; the exception leaves forward.
Raise ==
    /\ status' = "error"
    /\ UNCHANGED <<shape, pc, trace, masks, val>>

Fixed == UNCHANGED <<model, training, params, img, out, prev>>

\* forward(img) is called; a later call passes the same input again, and
\* prev keeps what the call before it returned.
Call ==
    /\ status \in {"ready", "done"}
    /\ status' = "running"
    /\ pc' = 1
    /\ shape' = img
    /\ masks' = <<>>
    /\ val' = None
    /\ trace' = <<>>
    /\ prev' = IF status = "done" THEN out ELSE None
    /\ out' = None
    /\ UNCHANGED <<model, training, params, img>>

StepConv2d ==
    /\ At("Conv2d")
    /\ IF Conv2dOk(Cur.layer, shape)
       THEN Advance(Conv2dShape(Cur.layer, shape)) /\ val' = None /\ masks' = masks
       ELSE Raise
    /\ Fixed

StepAvgPool2d ==
    /\ At("AvgPool2d")
    /\ IF Pool2dOk(Cur.layer, shape)
       THEN Advance(Pool2dShape(Cur.layer, shape)) /\ val' = None /\ masks' = masks
       ELSE Raise
    /\ Fixed

StepMaxPool2d ==
    /\ At("MaxPool2d")
    /\ IF Pool2dOk(Cur.layer, shape)
       THEN Advance(Pool2dShape(Cur.layer, shape)) /\ val' = None /\ masks' = masks
       ELSE Raise
    /\ Fixed

StepTanh ==
    /\ At("Tanh")
    /\ Advance(shape) /\ val' = None /\ masks' = masks
    /\ Fixed

StepReLU ==
    /\ At("ReLU")
    /\ Advance(shape) /\ val' = None /\ masks' = masks
    /\ Fixed

StepDropout ==
    /\ At("Dropout")
    /\ Advance(shape) /\ val' = None
    /\ IF DropoutActive
       THEN \E m \in Masks : masks' = Append(masks, m)
       ELSE masks' = masks
    /\ Fixed

StepDropout2d ==
    /\ At("Dropout2d")
    /\ Advance(shape) /\ val' = None
    /\ IF DropoutActive
       THEN \E m \in Masks : masks' = Append(masks, m)
       ELSE masks' = masks
    /\ Fixed

StepLinear ==
    /\ At("Linear")
    /\ IF LinearOk(Cur.layer, shape)
       THEN Advance(LinearShape(Cur.layer, shape)) /\ val' = None /\ masks' = masks
       ELSE Raise
    /\ Fixed

StepView ==
    /\ At("View")
    /\ IF ViewOk(Cur.layer, shape)
       THEN Advance(ViewShape(Cur.layer, shape)) /\ val' = None /\ masks' = masks
       ELSE Raise
    /\ Fixed

StepSoftmax ==
    /\ At("Softmax")
    /\ IF SoftmaxOk(Cur.layer, shape)
       THEN /\ Advance(shape)
            /\ val' = SoftmaxValue(Features(params, masks, shape), Cur.layer.dim)
            /\ masks' = masks
       ELSE Raise
    /\ Fixed

\* return output
Return ==
    /\ status = "running"
    /\ pc > Len(Forward(model))
    /\ status' = "done"
    /\ out' = [shape |-> shape,
               value |-> IF val = None THEN Features(params, masks, shape) ELSE val]
    /\ UNCHANGED <<model, training, params, img, pc, shape, masks, val, trace, prev>>

Next ==
    \/ Call
    \/ StepConv2d
    \/ StepAvgPool2d
    \/ StepMaxPool2d
    \/ StepTanh
    \/ StepReLU
    \/ StepDropout
    \/ StepDropout2d
    \/ StepLinear
    \/ StepView
    \/ StepSoftmax
    \/ Return

Spec == Init /\ [][Next]_vars

(***************************************************************************)
(* Properties.                                                             *)
(***************************************************************************)
Done == status = "done"

\* The input the models are written for: (batch, 1, 28, 28), batch >= 1.
IsValid(sh) == Len(sh) = 4 /\ sh[1] >= 1 /\ sh[2] = 1 /\ sh[3] = 28 /\ sh[4] = 28

Last(q) == q[Len(q)]

IsPool(l) == l.op \in {"AvgPool2d", "MaxPool2d"}

\* The (height, width) pairs the convolutions and poolings of a pass produced.
Spatial(tr) ==
    LET sel == SelectSeq(tr, LAMBDA e : e.layer.op = "Conv2d" \/ IsPool(e.layer))
    IN  [i \in 1..Len(sel) |-> <<sel[i].shape[3], sel[i].shape[4]>>]

\* The tensors view(-1, n) produced in a pass.
Flattened(tr) ==
    LET sel == SelectSeq(tr, LAMBDA e : e.layer.op = "View")
    IN  [i \in 1..Len(sel) |-> sel[i].shape]

\* C1: on an input of shape (b,1,28,28), b >= 1, forward of each model does
\* not fail and returns a tensor of shape (b,10); the convolution stack takes
\* the 28x28 image to 28x28, 14x14, 10x10 and 5x5, and the flatten gives b
\* rows of 400 features (of 784 for CustomMLP).
C1_OutputShape ==
    IsValid(img) =>
        /\ status # "error"
        /\ Done => out.shape = <<img[1], 10>>
        /\ (Done /\ model # "CustomMLP") =>
               /\ Spatial(trace) = <<<<28, 28>>, <<14, 14>>, <<10, 10>>, <<5, 5>>>>
               /\ Flattened(trace) = <<<<img[1], 400>>>>
        /\ (Done /\ model = "CustomMLP") =>
               Flattened(trace) = <<<<img[1], 784>>>>

C1_Witness ==
    /\ Done /\ IsValid(img) /\ img[1] >= 2
    /\ model = "RegularizedLenet5"
    /\ out.shape = <<img[1], 10>>

\* The parameter counts of the layers of a pass that have any.
Counts(steps) ==
    LET sel == SelectSeq(steps, LAMBDA e : e.layer.op \in {"Conv2d", "Linear"})
    IN  [i \in 1..Len(sel) |-> LayerParams(sel[i].layer)]

\* C2: LeNet5 and RegularizedLenet5 have 61,706 learnable parameters each,
\* 156 + 2,416 + 48,120 + 10,164 + 850 over their convolutions and linear
\* layers, CustomMLP has 61,720, and no other layer has any; a completed
\* pass has used each of them once.
C2_ParamCount ==
    /\ model \in {"LeNet5", "RegularizedLenet5"} =>
           /\ ParamCount(Forward(model)) = 61706
           /\ Counts(Forward(model)) = <<156, 2416, 48120, 10164, 850>>
    /\ model = "CustomMLP" =>
           /\ ParamCount(Forward(model)) = 61720
           /\ Counts(Forward(model)) = <<50240, 4160, 4160, 2080, 528, 272, 170, 110>>
    /\ \A i \in 1..Len(Forward(model)) :
           Forward(model)[i].layer.op \notin {"Conv2d", "Linear"}
               => LayerParams(Forward(model)[i].layer) = 0
    /\ Done => ParamCount(trace) = ParamCount(Forward(model))

C2_Witness ==
    /\ Done /\ model = "CustomMLP"
    /\ ParamCount(trace) = 61720

\* What the convolution stack of LeNet5 and RegularizedLenet5 leaves of a
\* side of n pixels.
AfterStack(n) == ((n \div 2) - 4) \div 2

\* The inputs forward works through without a library error.
Accepts(m, sh) ==
    IF m = "CustomMLP"
    THEN Numel(sh) > 0 /\ (Numel(sh) % 784) = 0
    ELSE /\ Len(sh) = 4
         /\ sh[1] >= 1
         /\ sh[2] = 1
         /\ sh[3] >= 12
         /\ sh[4] >= 12
         /\ (sh[1] * 16 * AfterStack(sh[3]) * AfterStack(sh[4])) % 400 = 0

\* The number of rows forward returns for an input it accepts.
Rows(m, sh) ==
    IF m = "CustomMLP"
    THEN Numel(sh) \div 784
    ELSE (sh[1] * 16 * AfterStack(sh[3]) * AfterStack(sh[4])) \div 400

\* C3 as stated: forward returns only for inputs of shape (batch,1,28,28);
\* every other input ends in a dimension error.
C3_MalformedAlwaysFails == Done => IsValid(img)

\* C3, amended: an input of another shape ends in a dimension error exactly
\* when a layer or a view rejects it (wrong channel count, image too small,
\* element count no multiple of the row width); one that passes is returned
\* as (n,10), n being the element count over the row width.
C3_MalformedOutcome ==
    (~IsValid(img) /\ status \in {"done", "error"}) =>
        /\ Done <=> Accepts(model, img)
        /\ Done => out.shape = <<Rows(model, img), 10>>

C3_Witness ==
    /\ Done /\ ~IsValid(img)
    /\ Len(img) = 4
    /\ out.shape[1] # img[1]

\* C4: in evaluation mode no dropout layer changes its input, and a second
\* pass on the same input with the same parameters returns what the first
\* returned.
C4_EvalDeterministic ==
    ~training =>
        /\ masks = <<>>
        /\ (Done /\ prev # None) => out = prev

C4_Witness ==
    /\ ~training /\ Done /\ prev # None
    /\ model = "RegularizedLenet5"
    /\ \E i \in 1..Len(trace) : trace[i].layer.op = "Dropout2d"

\* C5 as stated: in training mode every model is stochastic through
\* dropout, so a training pass of any model has drawn a dropout mask.
C5_EveryModelDrawsMasks == (Done /\ training) => Len(masks) > 0

\* The dropout layers of a model.
NumDropout(m) ==
    Len(SelectSeq(Forward(m), LAMBDA e : e.layer.op \in {"Dropout", "Dropout2d"}))

\* C5, amended: a model is in one of two modes; a training pass of
\* CustomMLP draws 7 dropout masks and one of RegularizedLenet5 draws 4,
\* LeNet5 has no dropout layer and returns the same output in both passes
\* in either mode; the output shape does not depend on the masks or on the
\* mode.
C5_TrainingStochastic ==
    /\ training \in BOOLEAN
    /\ (Done /\ training) =>
           Len(masks) = (CASE model = "LeNet5" -> 0
                           [] model = "CustomMLP" -> 7
                           [] model = "RegularizedLenet5" -> 4)
    /\ (Done /\ model = "LeNet5" /\ prev # None) => out = prev
    /\ (Done /\ prev # None) => out.shape = prev.shape
    /\ (Done /\ IsValid(img)) => out.shape = <<img[1], 10>>

C5_Witness ==
    /\ training /\ Done /\ prev # None
    /\ model = "RegularizedLenet5"
    /\ out.value # prev.value
    /\ out.shape = prev.shape

RowOk(q) ==
    /\ \A j \in 1..Len(q) : q[j] >= 0
    /\ SumSeq(q) <= Scale
    /\ SumSeq(q) > Scale - Len(q)

\* C6: in either mode the last layer a pass applies is the softmax over
\* dimension 1 of a (n,10) tensor, and every row of the output has
\* non-negative entries that sum to 1 up to the rounding of its 10 entries.
C6_SoftmaxLast ==
    Done =>
        /\ Last(trace).layer = Softmax(1)
        /\ Len(out.shape) = 2
        /\ out.shape[2] = 10
        /\ Len(out.value) = out.shape[1]
        /\ \A r \in 1..Len(out.value) :
               Len(out.value[r]) = 10 /\ RowOk(out.value[r])

C6_Witness ==
    /\ Done /\ training /\ model = "CustomMLP"
    /\ out.shape[1] >= 2
    /\ \E r \in 1..Len(out.value) : SumSeq(out.value[r]) < Scale

\* C7: LeNet5.forward returns logits: the last layer applied is the linear
\* layer 84 -> 10 and the output is its unnormalised result.
C7_LogitOutput ==
    (Done /\ model = "LeNet5") =>
        /\ Last(trace).layer = Linear(84, 10)
        /\ out.value = Features(params, masks, out.shape)

\* C8: the two subsampling stages of LeNet5, S2 and S4, are max poolings
\* with kernel size (2,2).
C8_MaxPooling ==
    model = "LeNet5" =>
        \A i \in 1..Len(trace) :
            (trace[i].blk = "conv_layers" /\ i \in {3, 6}) =>
                trace[i].layer.op = "MaxPool2d" /\ trace[i].layer.k = 2

RECURSIVE Regularize(_)
Regularize(steps) ==
    IF steps = <<>> THEN <<>>
    ELSE LET e == Head(steps)
             l == e.layer
         IN  (CASE l.op = "Tanh" ->
                     <<[blk |-> e.blk, layer |-> ReLU],
                       [blk |-> e.blk, layer |-> Dropout2d(50)]>>
                [] l.op = "AvgPool2d" ->
                     <<[blk |-> e.blk, layer |-> MaxPool2d(l.k, l.s)]>>
                [] OTHER -> <<e>>)
             \o Regularize(Tail(steps))

Applied(tr) == [i \in 1..Len(tr) |-> [blk |-> tr[i].blk, layer |-> tr[i].layer]]

\* C9: the layers a pass of RegularizedLenet5 applies are those of LeNet5
\* with every tanh replaced by ReLU followed by a 2D dropout with p = 0.5
\* and every average pooling by a max pooling of the same kernel and stride;
\* that makes four dropouts, none after the last linear layer.
C9_RegularizedTopology ==
    model = "RegularizedLenet5" =>
        /\ Len(trace) <= Len(Regularize(LeNet5_forward))
        /\ Applied(trace) = SubSeq(Regularize(LeNet5_forward), 1, Len(trace))
        /\ Done =>
               /\ Applied(trace) = Regularize(LeNet5_forward)
               /\ Len(SelectSeq(trace, LAMBDA e : e.layer.op = "Dropout2d")) = 4
               /\ trace[Len(trace) - 1].layer = Linear(84, 10)

C9_Witness ==
    /\ Done /\ model = "RegularizedLenet5" /\ IsValid(img)
    /\ Len(trace) = 17

MLPWidths == <<784, 64, 64, 64, 32, 16, 16, 10, 10>>
MLPBlocks == <<"layer1", "layer2", "layer3", "layer4", "layer5", "layer6",
               "layer7", "layer8">>

\* The step CustomMLP.forward is expected to take in position i.
MLPStep(i) ==
    IF i = 1 THEN [blk |-> "forward", layer |-> View(784)]
    ELSE LET b == ((i - 2) \div 3) + 1
             k == (i - 2) % 3
         IN  [blk |-> MLPBlocks[b],
              layer |-> CASE k = 0 -> Linear(MLPWidths[b], MLPWidths[b + 1])
                          [] k = 1 /\ b < 8 -> Dropout(50)
                          [] k = 1 /\ b = 8 -> Softmax(1)
                          [] k = 2 -> ReLU]

\* C10: CustomMLP.forward flattens to rows of 784 and applies layer1 to
\* layer8 in that order, each once: seven blocks linear, dropout(0.5), ReLU
\* of widths 784, 64, 64, 64, 32, 16, 16, 10, then linear 10 -> 10 and
\* softmax; every linear layer receives the width the block before it
\* produced, and no input that reaches layer1 fails later.
C10_MLPChain ==
    model = "CustomMLP" =>
        /\ Len(trace) <= 24
        /\ \A i \in 1..Len(trace) : Applied(trace)[i] = MLPStep(i)
        /\ \A i \in 2..Len(trace) :
               trace[i].layer.op = "Linear" =>
                   trace[i].layer.cin = trace[i - 1].shape[2]
        /\ Done => Len(trace) = 24
        /\ (status = "error") => trace = <<>>

C10_Witness ==
    /\ Done /\ model = "CustomMLP" /\ training
    /\ Len(trace) = 24
    /\ Len(masks) = 7

====
